---- MODULE Spec2Model ----
(***************************************************************************)
(* Model of the EduNova backend (aa5652mdx/backendnova).                   *)
(*                                                                         *)
(* Two implementations of the same HTTP API live in the repository:        *)
(*   src/server.js          (mongoose; readiness flag dbConnectionError)   *)
(*   src/unnamed/part_001   (native MongoDB driver; readiness handle db)   *)
(* A behaviour of the model is a run of one of them (variable impl)        *)
(* against the MongoDB collections "lessons" and "orders": SpecServer is   *)
(* the runs of server.js, SpecNative those of part_001, Spec those of      *)
(* either. A property of a route that only server.js is cited for is       *)
(* checked under SpecServer, every other one under Spec.                   *)
(*                                                                         *)
(* Every await of a handler is a scheduling point: a request is a small    *)
(* process whose steps are the store operations it awaits, each of them    *)
(* atomic on the single document it touches (MongoDB's guarantee), with    *)
(* the synchronous code that follows the await folded into the step.       *)
(***************************************************************************)
EXTENDS Integers, Sequences, FiniteSets, TLC

\* ------------------------------------------------------------ bounds
\* Number of POST /orders requests of a run (ids are arrival numbers).
NumReq == 2
\* Longest lessonIDs array a client submits.
MaxItems == 2
\* Number of PUT /lessons/:id requests of a run.
MaxAdmin == 1

\* ------------------------------------------------------------ constants
\* spaces of every seeded lesson (initialLessons).
SeedSpaces == 5

\* The lessons of the catalog (two of the eight seeded documents).
LessonIds == {"L1", "L2"}

\* price of the seeded lessons: Mathematics, Physics.
SeedPrice == [l \in LessonIds |-> IF l = "L1" THEN 100 ELSE 120]

\* subject and location of the seeded lessons, as sequences of characters.
SeedSubject ==
    [l \in LessonIds |->
        IF l = "L1" THEN <<"M", "a", "t", "h", "e", "m", "a", "t", "i", "c", "s">>
        ELSE <<"P", "h", "y", "s", "i", "c", "s">>]

SeedLocation ==
    [l \in LessonIds |->
        IF l = "L1" THEN <<"L", "o", "n", "d", "o", "n">>
        ELSE <<"M", "a", "n", "c", "h", "e", "s", "t", "e", "r">>]

\* A well-formed ObjectId that names no document of the collection.
UnknownId == "L9"
\* A string that is no ObjectId: new ObjectId(..) throws on it.
MalformedId == "zz"

\* The ids PUT /lessons/:id is called with.
AdminIds == {"L1", UnknownId, MalformedId}

\* The quantities of ordinary line items, and the quantities that are no
\* positive integer.
GoodQtys == {3}
BadQtys == {-1, 0}

\* req.body.lessonIDs entries {lessonId, qty}: the ones that are combined
\* into lists of every length up to MaxItems ...
Items == [lessonId : LessonIds \cup {MalformedId}, qty : GoodQtys]

\* ... and the ones that are sent alone.
LoneItems == [lessonId : {"L1"}, qty : BadQtys] \cup [lessonId : {UnknownId}, qty : GoodQtys]

RECURSIVE SeqsUpTo(_, _)
SeqsUpTo(S, n) ==
    IF n = 0 THEN {<<>>}
    ELSE LET shorter == SeqsUpTo(S, n - 1)
         IN  shorter \cup {Append(s, x) : s \in {t \in shorter : Len(t) = n - 1}, x \in S}

\* A field the JSON body does not carry reads as undefined.
Undefined == "undefined"

GoodName == "Ann"
GoodPhone == "0700"

\* The total a client computes from the prices the catalog was seeded with.
RECURSIVE HonestTotal(_)
HonestTotal(s) ==
    IF s = <<>> THEN 0
    ELSE (IF Head(s).lessonId \in LessonIds
          THEN Head(s).qty * SeedPrice[Head(s).lessonId] ELSE 0)
            + HonestTotal(Tail(s))

\* A total that is not the price of anything ordered.
WrongTotal == 1

\* The request bodies of POST /orders: well-named bodies with a list of
\* items (or none at all), and bodies whose name or phone is empty or absent;
\* all with the total of their items, but for one body with another total.
Named(s) ==
    [name |-> GoodName, phone |-> GoodPhone, hasIDs |-> TRUE, lessonIDs |-> s,
     total |-> HonestTotal(s)]

Bodies ==
    {Named(s) : s \in SeqsUpTo(Items, MaxItems)}
    \cup {Named(<<x>>) : x \in LoneItems}
    \cup {[Named(<<>>) EXCEPT !.hasIDs = FALSE]}
    \cup {[Named(<<[lessonId |-> "L1", qty |-> 3]>>) EXCEPT !.name = n] : n \in {"", Undefined}}
    \cup {[Named(<<[lessonId |-> "L1", qty |-> 3]>>) EXCEPT !.phone = p] : p \in {"", Undefined}}
    \cup {[Named(<<[lessonId |-> "L1", qty |-> 3]>>) EXCEPT !.total = WrongTotal]}

NoBody ==
    [name |-> Undefined, phone |-> Undefined, hasIDs |-> FALSE, lessonIDs |-> <<>>,
     total |-> 0]

ReqIds == 1..NumReq

\* The term of GET /search as the handler reads it from the query string:
\* absent, or a string (a sequence of characters).
NoTerm == [given |-> FALSE, text |-> <<>>]

Term(t) == [given |-> TRUE, text |-> t]

\* The terms searched for: none, the empty one, "lon", "PH", "." and "(".
Queries ==
    {NoTerm, Term(<<>>), Term(<<"l", "o", "n">>), Term(<<"P", "H">>),
     Term(<<".">>), Term(<<"(">>)}

\* The bodies of the runs that exercise every route.
RouteBodies ==
    {Named(<<[lessonId |-> "L1", qty |-> 3]>>),
     Named(<<[lessonId |-> "L1", qty |-> 3], [lessonId |-> "L2", qty |-> 3]>>)}

\* The values PUT /lessons/:id may carry in body.spaces.
AdminSpaces == {-1, 2}

\* A price a PUT body may carry next to spaces.
AdminPrice == 1

\* The bodies of PUT /lessons/:id: {spaces}, and {spaces, price}.
AdminBodies ==
    {[spaces |-> n, hasPrice |-> FALSE, price |-> 0] : n \in AdminSpaces}
    \cup {[spaces |-> 2, hasPrice |-> TRUE, price |-> AdminPrice]}

VARIABLES
    impl,               \* which file runs: "server" or "part_001"
    conn,               \* the connection attempt: "pending", "up", "failed"
    dbConnectionError,  \* server.js: the module-wide flag
    db,                 \* part_001: TRUE once the handle is assigned
    lessons,            \* collection lessons: id -> [spaces, price]
    orders,             \* collection orders, in insertion order
    req,                \* the POST /orders requests
    applied,            \* history: net change each request made to each lesson's spaces
    admin,              \* the PUT /lessons/:id requests answered so far
    got                 \* the GET request answered last

vars == <<impl, conn, dbConnectionError, db, lessons, orders, req, applied, admin, got>>


\* ------------------------------------------------------------ helpers

\* JavaScript's !v for the body's strings: empty and absent are both falsy.
Falsy(v) == v \in {"", Undefined}

\* new ObjectId(id) / new mongoose.Types.ObjectId(id) returns (TRUE) or throws.
IsObjectId(id) == id # MalformedId

\* A read of the document followed by a separate write of the new value: the
\* value written comes from a read taken before the other requests' updates.
IncSpacesLost(ls, id, d) ==
    IF id \in LessonIds THEN [ls EXCEPT ![id].spaces = SeedSpaces + d] ELSE ls

\* updateOne({_id: id}, {$inc: {spaces: d}}): one atomic step on the matched
\* document, and no change at all when the filter matches none.
IncSpaces(ls, id, d) ==
    IF id \in LessonIds THEN [ls EXCEPT ![id].spaces = @ + d] ELSE ls

\* A decrement of one space for every line item, whatever its quantity.
DeltaOfOne(item) == 0 - 1

\* The $inc operand of a line item: -item.qty.
Delta(item) == 0 - item.qty

\* The line items taken last to first.
ItemAtReversed(b, i) == b.lessonIDs[Len(b.lessonIDs) + 1 - i]

\* The line item of the i-th update: bulkOps keeps the order of lessonIDs
\* (map) and the ordered bulkWrite applies it front to back; the for..of loop
\* of part_001 walks lessonIDs front to back.
ItemAt(b, i) == b.lessonIDs[i]

\* if (!name || !phone || !lessonIDs || lessonIDs.length === 0)
MissingFields(b) ==
    Falsy(b.name) \/ Falsy(b.phone) \/ ~b.hasIDs \/ Len(b.lessonIDs) = 0

\* lessonIDs.map(item => ... new mongoose.Types.ObjectId(item.lessonId) ...)
\* throws on the first entry that is no ObjectId, before any update is sent.
MapThrows(b) == \E k \in 1..Len(b.lessonIDs) : ~IsObjectId(b.lessonIDs[k].lessonId)

InFlight(r) == req[r].pc \in {"save", "bulk"}

Idle == [pc |-> "idle", body |-> NoBody, i |-> 0, status |-> 0,
         snap |-> [l \in LessonIds |-> 0], alone |-> FALSE,
         fault |-> FALSE, unavailable |-> FALSE, sent |-> 0]

\* The request records after request r arrived with body b and ran to its
\* first await (pc "save") or to an early return (pc "done"). History: snap is
\* every lesson's spaces at the arrival, and alone tells that no other request
\* was in flight at any time of this one's; sent counts the responses.
Arrive(r, b, pc, status, unavailable) ==
    [x \in ReqIds |->
        IF x = r
        THEN [pc |-> pc, body |-> b, i |-> 0, status |-> status,
              snap |-> [l \in LessonIds |-> lessons[l].spaces],
              alone |-> \A y \in ReqIds : ~InFlight(y),
              fault |-> FALSE, unavailable |-> unavailable,
              sent |-> IF pc = "done" THEN 1 ELSE 0]
        ELSE IF InFlight(x) THEN [req[x] EXCEPT !.alone = FALSE] ELSE req[x]]

\* History: the change of every lesson's spaces in this step is put on
\* request r's account.
Observed(r) ==
    [applied EXCEPT ![r] =
        [l \in LessonIds |-> @[l] + lessons'[l].spaces - lessons[l].spaces]]

\* res.status(code).json(..): the request is answered.
Answer(r, code) ==
    [req EXCEPT ![r].pc = "done", ![r].status = code, ![r].sent = @ + 1]

\* No GET request was answered yet.
NoGet ==
    [route |-> "none", query |-> NoTerm, status |-> 0, store |-> "none",
     found |-> {}, listed |-> 0]

\* The answer to a GET request: the route, the search term, the status sent
\* (0: none), the collection the handler sent a find to, the lessons and the
\* number of orders in the body of the answer.
GetAnswered(route, q, code, coll, found, listed) ==
    [route |-> route, query |-> q, status |-> code, store |-> coll,
     found |-> found, listed |-> listed]

\* if (!query): the term is absent or the empty string.
TermFalsy(q) == ~q.given \/ q.text = <<>>

\* The flag i: letters are compared in one case.
Lower(c) ==
    CASE c = "H" -> "h" [] c = "L" -> "l" [] c = "M" -> "m"
      [] c = "N" -> "n" [] c = "O" -> "o" [] c = "P" -> "p"
      [] OTHER -> c

\* new RegExp(query, 'i') throws a SyntaxError on a pattern with an
\* unterminated group; MongoDB refuses such a $regex.
RegExpThrows(t) == \E k \in 1..Len(t) : t[k] = "("

\* One character of the pattern against one of the text: "." matches any
\* character, a letter matches itself in either case.
AtomMatches(p, c) == p = "." \/ Lower(p) = Lower(c)

\* searchRegex.test(text) / {$regex: query, $options: 'i'}: the pattern is
\* found at some position of the text.
RegExpTest(t, text) ==
    \E at \in 0..(Len(text) - Len(t)) :
        \A k \in 1..Len(t) : AtomMatches(t[k], text[at + k])

\* find({}): every document of lessons.
FindAll(ls) == DOMAIN ls

\* find({$or: [{subject: regex}, {location: regex}]})
FindMatching(ls, t) ==
    {l \in DOMAIN ls : RegExpTest(t, ls[l].subject) \/ RegExpTest(t, ls[l].location)}

\* Requests are numbered in arrival order.
NextToArrive(r) ==
    /\ req[r].pc = "idle"
    /\ \A y \in ReqIds : y < r => req[y].pc # "idle"

\* ------------------------------------------------------------ connection

Init ==
    /\ impl \in {"server", "part_001"}
    /\ conn = "pending"
    /\ dbConnectionError = FALSE
    /\ db = FALSE
    /\ lessons = [l \in LessonIds |->
                    [spaces |-> SeedSpaces, price |-> SeedPrice[l],
                     subject |-> SeedSubject[l], location |-> SeedLocation[l]]]
    /\ orders = <<>>
    /\ req = [r \in ReqIds |-> Idle]
    /\ applied = [r \in ReqIds |-> [l \in LessonIds |-> 0]]
    /\ admin = <<>>
    /\ got = NoGet

\* mongoose.connect(..).then(..) / await client.connect(); db = client.db(..)
ConnectOk ==
    /\ conn = "pending"
    /\ conn' = "up"
    /\ db' = (impl = "part_001")
    /\ UNCHANGED <<impl, dbConnectionError, lessons, orders, req, applied, admin, got>>

\* .catch(err => { dbConnectionError = true }) / catch (err) { log }
ConnectFail ==
    /\ conn = "pending"
    /\ conn' = "failed"
    /\ dbConnectionError' = (impl = "server")
    /\ UNCHANGED <<impl, db, lessons, orders, req, applied, admin, got>>

\* ------------------------------------------------------------ server.js POST /orders

\* A handler that does not look at the flag.
PostOrdersReceiveUnchecked(r, b) ==
    /\ impl = "server"
    /\ NextToArrive(r)
    /\ req' = IF MissingFields(b) THEN Arrive(r, b, "done", 400, FALSE)
              ELSE Arrive(r, b, "save", 0, FALSE)
    /\ UNCHANGED <<impl, conn, dbConnectionError, db, lessons, orders, applied, admin, got>>

\* From the request's arrival to await newOrder.save().
PostOrdersReceive(r, b) ==
    /\ impl = "server"
    /\ NextToArrive(r)
    /\ req' = IF dbConnectionError THEN Arrive(r, b, "done", 503, TRUE)
              ELSE IF MissingFields(b) THEN Arrive(r, b, "done", 400, FALSE)
              ELSE Arrive(r, b, "save", 0, FALSE)
    /\ UNCHANGED <<impl, conn, dbConnectionError, db, lessons, orders, applied, admin, got>>

\* An idempotent save: a body that is already an order's is answered 201
\* again, with no second record and no second decrement.
PostOrdersSaveOnce(r) ==
    /\ impl = "server"
    /\ req[r].pc = "save"
    /\ conn = "up"
    /\ IF \E k \in 1..Len(orders) : orders[k].body = req[r].body
       THEN /\ orders' = orders
            /\ req' = Answer(r, 201)
       ELSE /\ orders' = Append(orders, [req |-> r, body |-> req[r].body])
            /\ req' = IF MapThrows(req[r].body) THEN Answer(r, 400)
                      ELSE [req EXCEPT ![r].pc = "bulk", ![r].i = 1]
    /\ UNCHANGED <<impl, conn, dbConnectionError, db, lessons, applied, admin, got>>

\* newOrder.save() inserts the order; then bulkOps is built (which throws on
\* a malformed id: the catch block answers the BSONTypeError with 400) and
\* Lesson.bulkWrite is sent.
PostOrdersSave(r) ==
    /\ impl = "server"
    /\ req[r].pc = "save"
    /\ conn = "up"
    /\ orders' = Append(orders, [req |-> r, body |-> req[r].body])
    /\ req' = IF MapThrows(req[r].body) THEN Answer(r, 400)
              ELSE [req EXCEPT ![r].pc = "bulk", ![r].i = 1]
    /\ UNCHANGED <<impl, conn, dbConnectionError, db, lessons, applied, admin, got>>

\* One updateOne of the ordered bulkWrite; after the last one, 201.
PostOrdersBulkOp(r) ==
    /\ impl = "server"
    /\ req[r].pc = "bulk"
    /\ LET item == ItemAt(req[r].body, req[r].i)
       IN  /\ lessons' = IncSpaces(lessons, item.lessonId, Delta(item))
           /\ applied' = Observed(r)
    /\ req' = IF req[r].i = Len(req[r].body.lessonIDs) THEN Answer(r, 201)
              ELSE [req EXCEPT ![r].i = @ + 1]
    /\ UNCHANGED <<impl, conn, dbConnectionError, db, orders, admin, got>>

\* A catch block that logs the error and sends no response.
PostOrdersStoreErrorSilent(r) ==
    /\ impl = "server"
    /\ InFlight(r)
    /\ req' = [req EXCEPT ![r].pc = "hung", ![r].fault = TRUE]
    /\ UNCHANGED <<impl, conn, dbConnectionError, db, lessons, orders, applied, admin, got>>

\* A save() that rejects after the document was written all the same.
PostOrdersStoreErrorAfterWrite(r) ==
    /\ impl = "server"
    /\ InFlight(r)
    /\ orders' = IF req[r].pc = "save"
                 THEN Append(orders, [req |-> r, body |-> req[r].body])
                 ELSE orders
    /\ req' = [Answer(r, 500) EXCEPT ![r].fault = TRUE]
    /\ UNCHANGED <<impl, conn, dbConnectionError, db, lessons, applied, admin, got>>

\* save() or bulkWrite() rejects (the store is unreachable, a write is
\* refused): catch (err) answers 500. An ordered bulkWrite stops at the
\* failing operation and keeps the ones already applied.
PostOrdersStoreError(r) ==
    /\ impl = "server"
    /\ InFlight(r)
    /\ req' = [Answer(r, 500) EXCEPT ![r].fault = TRUE]
    /\ UNCHANGED <<impl, conn, dbConnectionError, db, lessons, orders, applied, admin, got>>

\* ------------------------------------------------------------ part_001 POST /orders

\* From the request's arrival to await db.collection('orders').insertOne(order).
NativePostOrdersReceive(r, b) ==
    /\ impl = "part_001"
    /\ NextToArrive(r)
    /\ req' = IF ~db THEN Arrive(r, b, "done", 500, TRUE)
              ELSE Arrive(r, b, "save", 0, FALSE)
    /\ UNCHANGED <<impl, conn, dbConnectionError, db, lessons, orders, applied, admin, got>>

\* new ObjectId(item.lessonId) for the item the loop reaches next.
NativeNextThrows(b, k) == ~IsObjectId(b.lessonIDs[k].lessonId)

\* A handler that starts the loop of updates without the insertOne before it.
NativePostOrdersInsertSkipped(r) ==
    /\ impl = "part_001"
    /\ req[r].pc = "save"
    /\ conn = "up"
    /\ req' = IF ~req[r].body.hasIDs THEN Answer(r, 500)
              ELSE IF Len(req[r].body.lessonIDs) = 0 THEN Answer(r, 201)
              ELSE IF NativeNextThrows(req[r].body, 1) THEN Answer(r, 500)
              ELSE [req EXCEPT ![r].pc = "bulk", ![r].i = 1]
    /\ UNCHANGED <<impl, conn, dbConnectionError, db, lessons, orders, applied, admin, got>>

\* insertOne(order) inserts req.body as it came; then the for..of loop starts:
\* it throws a TypeError when lessonIDs is absent, ends at once on an empty
\* list, and otherwise builds the first filter and sends the first updateOne.
NativePostOrdersInsert(r) ==
    /\ impl = "part_001"
    /\ req[r].pc = "save"
    /\ conn = "up"
    /\ orders' = Append(orders, [req |-> r, body |-> req[r].body])
    /\ req' = IF ~req[r].body.hasIDs THEN Answer(r, 500)
              ELSE IF Len(req[r].body.lessonIDs) = 0 THEN Answer(r, 201)
              ELSE IF NativeNextThrows(req[r].body, 1) THEN Answer(r, 500)
              ELSE [req EXCEPT ![r].pc = "bulk", ![r].i = 1]
    /\ UNCHANGED <<impl, conn, dbConnectionError, db, lessons, applied, admin, got>>

\* One awaited updateOne of the loop, then the loop's next iteration.
NativePostOrdersUpdateOne(r) ==
    /\ impl = "part_001"
    /\ req[r].pc = "bulk"
    /\ LET item == ItemAt(req[r].body, req[r].i)
       IN  /\ lessons' = IncSpaces(lessons, item.lessonId, Delta(item))
           /\ applied' = Observed(r)
    /\ req' = IF req[r].i = Len(req[r].body.lessonIDs) THEN Answer(r, 201)
              ELSE IF NativeNextThrows(req[r].body, req[r].i + 1) THEN Answer(r, 500)
              ELSE [req EXCEPT ![r].i = @ + 1]
    /\ UNCHANGED <<impl, conn, dbConnectionError, db, orders, admin, got>>

\* insertOne or updateOne rejects: catch (err) answers 500.
NativePostOrdersStoreError(r) ==
    /\ impl = "part_001"
    /\ InFlight(r)
    /\ req' = [Answer(r, 500) EXCEPT ![r].fault = TRUE]
    /\ UNCHANGED <<impl, conn, dbConnectionError, db, lessons, orders, applied, admin, got>>

\* ------------------------------------------------------------ PUT /lessons/:id

\* The answer is appended to the history of administrative requests.
Answered(id, b, code) ==
    Append(admin, [id |-> id, spaces |-> b.spaces, status |-> code])

\* server.js: the flag, the value check, the id check, and
\* findByIdAndUpdate(lessonId, {spaces: newSpaces}): of the body only spaces
\* is read.
PutLesson(id, b) ==
    /\ impl = "server"
    /\ Len(admin) < MaxAdmin
    /\ IF dbConnectionError
       THEN admin' = Answered(id, b, 503) /\ UNCHANGED lessons
       ELSE IF b.spaces < 0
       THEN admin' = Answered(id, b, 400) /\ UNCHANGED lessons
       ELSE IF ~IsObjectId(id)
       THEN admin' = Answered(id, b, 400) /\ UNCHANGED lessons
       ELSE /\ conn = "up"
            /\ IF id \in LessonIds
               THEN /\ lessons' = [lessons EXCEPT ![id].spaces = b.spaces]
                    /\ admin' = Answered(id, b, 200)
               ELSE /\ admin' = Answered(id, b, 404)
                    /\ UNCHANGED lessons
    /\ UNCHANGED <<impl, conn, dbConnectionError, db, orders, req, applied, got>>

\* {$set: updates} with updates = req.body: every field of the body is
\* written to the document.
SetFields(doc, b) ==
    [doc EXCEPT !.spaces = b.spaces,
                !.price = IF b.hasPrice THEN b.price ELSE @]

\* part_001: the handle check, then updateOne({_id}, {$set: req.body}) with
\* no check of the value and no try/catch: a malformed id throws out of the
\* async handler and no answer is sent (status 0); an id that matches no
\* document is answered "Updated" like any other.
NativePutLesson(id, b) ==
    /\ impl = "part_001"
    /\ Len(admin) < MaxAdmin
    /\ IF ~db
       THEN admin' = Answered(id, b, 500) /\ UNCHANGED lessons
       ELSE IF ~IsObjectId(id)
       THEN admin' = Answered(id, b, 0) /\ UNCHANGED lessons
       ELSE /\ admin' = Answered(id, b, 200)
            /\ lessons' = IF id \in LessonIds
                          THEN [lessons EXCEPT ![id] = SetFields(@, b)]
                          ELSE lessons
    /\ UNCHANGED <<impl, conn, dbConnectionError, db, orders, req, applied, got>>

\* ------------------------------------------------------------ GET routes

\* server.js GET /lessons, /search and /orders: the flag, then one find on
\* the route's collection (with or without a filter), answered with the
\* documents, or with 500 from the catch block when the find rejects. The
\* find is buffered while the connection attempt is pending.
ServerGet(route, q, coll, found, listed) ==
    IF dbConnectionError THEN {GetAnswered(route, q, 503, "none", {}, 0)}
    ELSE IF conn = "up"
    THEN {GetAnswered(route, q, 200, coll, found, listed),
          GetAnswered(route, q, 500, coll, {}, 0)}
    ELSE {}

GetLessons ==
    /\ impl = "server"
    /\ got' \in ServerGet("lessons", NoTerm, "lessons", FindAll(lessons), 0)
    /\ UNCHANGED <<impl, conn, dbConnectionError, db, lessons, orders, req, applied, admin>>

\* GET /search: without a term it is the listing; with one, new RegExp
\* throws into the catch block (500, before any find) or the find is sent
\* with the regular expression for subject and location.
GetSearch(q) ==
    /\ impl = "server"
    /\ got' \in
        IF ~dbConnectionError /\ ~TermFalsy(q) /\ RegExpThrows(q.text)
        THEN {GetAnswered("search", q, 500, "none", {}, 0)}
        ELSE ServerGet("search", q, "lessons",
                       IF TermFalsy(q) THEN FindAll(lessons)
                       ELSE FindMatching(lessons, q.text),
                       0)
    /\ UNCHANGED <<impl, conn, dbConnectionError, db, lessons, orders, req, applied, admin>>

\* A listing that empties the collection it has read.
GetOrdersAndClear ==
    /\ impl = "server"
    /\ got' \in ServerGet("orders", NoTerm, "orders", {}, Len(orders))
    /\ orders' = IF got'.status = 200 THEN <<>> ELSE orders
    /\ UNCHANGED <<impl, conn, dbConnectionError, db, lessons, req, applied, admin>>

GetOrders ==
    /\ impl = "server"
    /\ got' \in ServerGet("orders", NoTerm, "orders", {}, Len(orders))
    /\ UNCHANGED <<impl, conn, dbConnectionError, db, lessons, orders, req, applied, admin>>

\* part_001 GET /lessons and /search: the handle, then one find on lessons,
\* answered with the documents; there is no try/catch, so a find that rejects
\* leaves the request without an answer (status 0). part_001 has no GET /orders.
NativeGet(route, q, found) ==
    IF ~db THEN {GetAnswered(route, q, 500, "none", {}, 0)}
    ELSE {GetAnswered(route, q, 200, "lessons", found, 0),
          GetAnswered(route, q, 0, "lessons", {}, 0)}

NativeGetLessons ==
    /\ impl = "part_001"
    /\ got' \in NativeGet("lessons", NoTerm, FindAll(lessons))
    /\ UNCHANGED <<impl, conn, dbConnectionError, db, lessons, orders, req, applied, admin>>

\* GET /search: without a term it is the listing; with one, the find is sent
\* with {$regex: query, $options: 'i'} for subject and location, and the
\* store rejects it when the pattern is no regular expression.
NativeGetSearch(q) ==
    /\ impl = "part_001"
    /\ got' \in
        IF db /\ ~TermFalsy(q) /\ RegExpThrows(q.text)
        THEN {GetAnswered("search", q, 0, "lessons", {}, 0)}
        ELSE NativeGet("search", q,
                       IF TermFalsy(q) THEN FindAll(lessons)
                       ELSE FindMatching(lessons, q.text))
    /\ UNCHANGED <<impl, conn, dbConnectionError, db, lessons, orders, req, applied, admin>>

\* ------------------------------------------------------------ specification

\* The routes of src/server.js.
NextServer ==
    \/ ConnectOk
    \/ ConnectFail
    \/ \E r \in ReqIds, b \in Bodies : PostOrdersReceive(r, b)
    \/ \E r \in ReqIds : PostOrdersSave(r)
    \/ \E r \in ReqIds : PostOrdersBulkOp(r)
    \/ \E r \in ReqIds : PostOrdersStoreError(r)
    \/ \E id \in AdminIds, b \in AdminBodies : PutLesson(id, b)

\* The routes of src/unnamed/part_001.
NextNative ==
    \/ ConnectOk
    \/ ConnectFail
    \/ \E r \in ReqIds, b \in Bodies : NativePostOrdersReceive(r, b)
    \/ \E r \in ReqIds : NativePostOrdersInsert(r)
    \/ \E r \in ReqIds : NativePostOrdersUpdateOne(r)
    \/ \E r \in ReqIds : NativePostOrdersStoreError(r)
    \/ \E id \in AdminIds, b \in AdminBodies : NativePutLesson(id, b)

Next == NextServer \/ NextNative

\* A run of either implementation.
Spec == Init /\ [][Next]_vars

\* The step of request r that is pending: the store operation it awaits
\* resolves or rejects, and the handler runs on to its next await or to its
\* response.
Progress(r) ==
    \/ PostOrdersSave(r)
    \/ PostOrdersBulkOp(r)
    \/ PostOrdersStoreError(r)
    \/ NativePostOrdersInsert(r)
    \/ NativePostOrdersUpdateOne(r)
    \/ NativePostOrdersStoreError(r)

\* A run in which every store operation a request awaits comes back (the
\* driver resolves or rejects every call, and the event loop runs every
\* continuation that is ready).
SpecLive == Spec /\ \A r \in ReqIds : WF_vars(Progress(r))

\* A run of src/server.js.
InitServer == Init /\ impl = "server"
SpecServer == InitServer /\ [][NextServer]_vars

\* A run of src/unnamed/part_001.
InitNative == Init /\ impl = "part_001"
SpecNative == InitNative /\ [][NextNative]_vars

\* Every route of either file, with the bodies RouteBodies.
NextRoutes ==
    \/ ConnectOk
    \/ ConnectFail
    \/ \E r \in ReqIds, b \in RouteBodies : PostOrdersReceive(r, b)
    \/ \E r \in ReqIds : PostOrdersSave(r)
    \/ \E r \in ReqIds : PostOrdersBulkOp(r)
    \/ \E r \in ReqIds : PostOrdersStoreError(r)
    \/ \E id \in AdminIds, b \in AdminBodies : PutLesson(id, b)
    \/ GetLessons
    \/ \E q \in Queries : GetSearch(q)
    \/ GetOrders
    \/ \E r \in ReqIds, b \in RouteBodies : NativePostOrdersReceive(r, b)
    \/ \E r \in ReqIds : NativePostOrdersInsert(r)
    \/ \E r \in ReqIds : NativePostOrdersUpdateOne(r)
    \/ \E r \in ReqIds : NativePostOrdersStoreError(r)
    \/ \E id \in AdminIds, b \in AdminBodies : NativePutLesson(id, b)
    \/ NativeGetLessons
    \/ \E q \in Queries : NativeGetSearch(q)

\* A run of either implementation with requests to every route.
SpecRoutes == Init /\ [][NextRoutes]_vars

TypeOK ==
    /\ impl \in {"server", "part_001"}
    /\ conn \in {"pending", "up", "failed"}
    /\ \A l \in LessonIds : lessons[l].spaces \in Int
    /\ \A r \in ReqIds : req[r].pc \in {"idle", "save", "bulk", "done"}


\* ------------------------------------------------------------ vocabulary of the properties

Done(r) == req[r].pc = "done"

\* The positions of the order documents request r inserted.
OrdersOf(r) == {k \in 1..Len(orders) : orders[k].req = r}

\* The quantity a list of line items asks of lesson l.
RECURSIVE QtyFor(_, _)
QtyFor(s, l) ==
    IF s = <<>> THEN 0
    ELSE (IF Head(s).lessonId = l THEN Head(s).qty ELSE 0) + QtyFor(Tail(s), l)

\* The quantity the order documents of the collection ask of lesson l.
RECURSIVE Committed(_, _)
Committed(os, l) ==
    IF os = <<>> THEN 0
    ELSE QtyFor(Head(os).body.lessonIDs, l) + Committed(Tail(os), l)

\* The quantity the requests answered 201 ask of lesson l.
RECURSIVE Sold(_, _)
Sold(rs, l) ==
    IF rs = {} THEN 0
    ELSE LET r == CHOOSE x \in rs : TRUE
         IN  (IF req[r].status = 201 THEN QtyFor(req[r].body.lessonIDs, l) ELSE 0)
                 + Sold(rs \ {r}, l)

\* Request r changed no lesson and left no order.
NoSideEffect(r) ==
    /\ \A l \in LessonIds : applied[r][l] = 0
    /\ OrdersOf(r) = {}

\* Request r reached the handler's work with the store at hand and no store
\* operation of it failed.
Served(r) == Done(r) /\ ~req[r].unavailable /\ ~req[r].fault

\* The body passes the field check of section 4.1 (name, phone, a non-empty list).
WellFormed(b) == ~Falsy(b.name) /\ ~Falsy(b.phone) /\ b.hasIDs /\ Len(b.lessonIDs) > 0

\* Every line item names a lesson of the catalog, with a positive quantity
\* that the lesson's spaces at the request's arrival cover.
Fits(r) ==
    /\ WellFormed(req[r].body)
    /\ \A k \in 1..Len(req[r].body.lessonIDs) :
        LET item == req[r].body.lessonIDs[k]
        IN  /\ item.lessonId \in LessonIds
            /\ item.qty > 0
            /\ item.qty <= req[r].snap[item.lessonId]

\* ------------------------------------------------------------ C1

\* C1: in every reachable state, under any interleaving of orders and
\* administrative updates, every lesson's spaces is >= 0. (Stated for the
\* runs whose administrative updates carry no negative value: what is left to
\* take spaces below zero is a decrement.)
C1_SpacesNeverNegative ==
    (\A k \in 1..Len(admin) : admin[k].spaces >= 0)
        => \A l \in LessonIds : lessons[l].spaces >= 0

\* ------------------------------------------------------------ C2

\* C2: without administrative updates, the quantities of the orders answered
\* with success never add up to more than a lesson's original capacity.
C2_NoOversell ==
    Len(admin) = 0 => \A l \in LessonIds : Sold(ReqIds, l) <= SeedSpaces

\* ------------------------------------------------------------ C3

\* Two requests for 3 spaces of L1 that both arrived when L1 had 5 (so the
\* second arrived while the first was in flight), both served.
TwoRacingOrders ==
    /\ \A r \in {1, 2} :
        /\ Served(r)
        /\ req[r].body = Named(<<[lessonId |-> "L1", qty |-> 3]>>)
        /\ req[r].snap["L1"] = 5
    /\ Len(admin) = 0

\* C3: of two concurrent orders of 3 on a lesson with 5 spaces exactly one
\* succeeds, the other is refused, and 2 spaces are left.
C3_ExactlyOneOfTwoSucceeds ==
    TwoRacingOrders =>
        /\ Cardinality({r \in {1, 2} : req[r].status = 201}) = 1
        /\ lessons["L1"].spaces = 2

\* ------------------------------------------------------------ C4

\* Every line item names a lesson of the catalog with a positive quantity,
\* and some line item asks more of its lesson than it had at the arrival.
AsksTooMuch(r) ==
    /\ \A k \in 1..Len(req[r].body.lessonIDs) :
        LET item == req[r].body.lessonIDs[k]
        IN  item.lessonId \in LessonIds /\ item.qty > 0
    /\ \E k \in 1..Len(req[r].body.lessonIDs) :
        LET item == req[r].body.lessonIDs[k]
        IN  item.qty > req[r].snap[item.lessonId]

\* C4: an order with a line item that exceeds the lesson's availability is
\* rejected as a whole: with no other request in flight, once it is answered
\* there is no order record of it and every lesson has the spaces it had.
C4_AllOrNothing ==
    \A r \in ReqIds :
        (Served(r) /\ req[r].alone /\ Len(admin) = 0
            /\ WellFormed(req[r].body) /\ AsksTooMuch(r))
        => /\ req[r].status # 201
           /\ OrdersOf(r) = {}
           /\ \A l \in LessonIds : lessons[l].spaces = req[r].snap[l]

\* ------------------------------------------------------------ C5

\* C5: a request without a name, a phone or line items is answered 400 and
\* has no side effect.
C5_MissingFieldsRejected ==
    \A r \in ReqIds :
        (Served(r) /\ ~WellFormed(req[r].body))
        => req[r].status = 400 /\ NoSideEffect(r)

\* ------------------------------------------------------------ C6

NonPositiveQty(b) == \E k \in 1..Len(b.lessonIDs) : b.lessonIDs[k].qty <= 0

\* C6: a request with a zero or negative quantity is answered 400 with no
\* side effect, and no request ever raises a lesson's spaces.
C6_NonPositiveQtyRejected ==
    \A r \in ReqIds :
        /\ (Served(r) /\ WellFormed(req[r].body) /\ NonPositiveQty(req[r].body))
            => req[r].status = 400 /\ NoSideEffect(r)
        /\ \A l \in LessonIds : applied[r][l] <= 0

\* ------------------------------------------------------------ C7

NamesNoLesson(b) == \E k \in 1..Len(b.lessonIDs) : b.lessonIDs[k].lessonId \notin LessonIds

\* C7: a request naming a lesson the catalog does not hold is answered with an
\* error and has no side effect.
C7_UnknownLessonRejected ==
    \A r \in ReqIds :
        (Served(r) /\ WellFormed(req[r].body) /\ NamesNoLesson(req[r].body))
        => req[r].status # 201 /\ NoSideEffect(r)

\* ------------------------------------------------------------ C8

\* C8: an answered request left exactly one order record if it was answered
\* with success and none if it was answered with an error.
C8_OrdersOnlyOfSuccesses ==
    \A r \in ReqIds :
        Done(r) => Cardinality(OrdersOf(r)) = (IF req[r].status = 201 THEN 1 ELSE 0)

\* ------------------------------------------------------------ C9

\* C9: a served order whose every line item fits is answered 201, has taken
\* from every lesson exactly the quantity its line items ask of it (nothing
\* from a lesson it does not name), and has left exactly one order record.
C9_FittingOrderSucceeds ==
    \A r \in ReqIds :
        (Served(r) /\ Fits(r))
        => /\ req[r].status = 201
           /\ \A l \in LessonIds :
                applied[r][l] = 0 - QtyFor(req[r].body.lessonIDs, l)
           /\ Cardinality(OrdersOf(r)) = 1

\* A served order of 3 spaces of L1 alone: L1 went from 5 to 2 and L2 kept its 5.
C9_Witness ==
    \E r \in ReqIds :
        /\ Served(r) /\ Fits(r) /\ req[r].alone /\ Len(admin) = 0
        /\ req[r].body.lessonIDs = <<[lessonId |-> "L1", qty |-> 3]>>
        /\ req[r].snap["L1"] = 5
        /\ lessons["L1"].spaces = 2
        /\ lessons["L2"].spaces = req[r].snap["L2"]
        /\ req[r].status = 201

\* ------------------------------------------------------------ C10

\* C10: without administrative updates, in every state (requests in flight
\* included) a lesson's spaces is its original capacity minus the quantities
\* of the order records naming it.
C10_SpacesMatchOrders ==
    Len(admin) = 0 =>
        \A l \in LessonIds : lessons[l].spaces = SeedSpaces - Committed(orders, l)


\* ------------------------------------------------------------ C11

\* The store operation of request r that rejected was the order's save (the
\* request never got to send an update: i is still 0).
SaveFailed(r) == Done(r) /\ req[r].fault /\ req[r].i = 0

\* C11: when persisting the order fails the request is answered 500, and once
\* it is answered no lesson was changed by it and no order record was added.
C11_SaveFailureLeavesNothing ==
    \A r \in ReqIds :
        SaveFailed(r)
        => /\ req[r].status = 500
           /\ NoSideEffect(r)

\* A request whose save was rejected, after an earlier order was placed.
C11_Witness ==
    /\ SaveFailed(2)
    /\ req[2].alone
    /\ req[2].status = 500
    /\ req[1].status = 201
    /\ Len(orders) = 1


\* ------------------------------------------------------------ C12

\* C12: every request that arrived is answered in the end, and with exactly
\* one response: none before the answer, one from then on.
C12_AnsweredExactlyOnce ==
    /\ \A r \in ReqIds : (req[r].pc # "idle") ~> Done(r)
    /\ [](\A r \in ReqIds : req[r].sent = (IF Done(r) THEN 1 ELSE 0))

\* Two answered requests, one on the success path and one on the path of a
\* store exception, each with its one response.
C12_Witness ==
    /\ Done(1) /\ req[1].status = 201 /\ req[1].sent = 1
    /\ Done(2) /\ req[2].status = 500 /\ req[2].fault /\ req[2].sent = 1


\* ------------------------------------------------------------ C13

\* The administrative request was not turned away for want of a store.
Reached(a) == a.status \notin {500, 503}

\* C13: an administrative update with a negative value is answered 400, one
\* with the id of no lesson 404, neither changes a lesson, and so no
\* administrative update makes a lesson's spaces negative.
C13_AdminRejectsNegative ==
    /\ \A k \in 1..Len(admin) :
        Reached(admin[k])
        => /\ admin[k].spaces < 0 => admin[k].status = 400
           /\ (admin[k].spaces >= 0 /\ admin[k].id = UnknownId) => admin[k].status = 404
    /\ (\A r \in ReqIds : req[r].pc = "idle")
        => \A l \in LessonIds :
            /\ lessons[l].spaces >= 0
            /\ (\A k \in 1..Len(admin) : admin[k].status # 200)
                => lessons[l].spaces = SeedSpaces


\* ------------------------------------------------------------ C14

\* What the line items cost at the prices the catalog holds.
RECURSIVE CatalogTotal(_)
CatalogTotal(s) ==
    IF s = <<>> THEN 0
    ELSE Head(s).qty * lessons[Head(s).lessonId].price + CatalogTotal(Tail(s))

\* C14: the total stored with an order of catalog lessons is what its items
\* cost at the catalog's prices (which no route of server.js changes), not a
\* value the client supplied.
C14_TotalFromCatalog ==
    \A k \in 1..Len(orders) :
        (\A j \in 1..Len(orders[k].body.lessonIDs) :
            orders[k].body.lessonIDs[j].lessonId \in LessonIds)
        => orders[k].body.total = CatalogTotal(orders[k].body.lessonIDs)


\* ------------------------------------------------------------ C15

\* Request r came with two line items on two lessons of the catalog, and the
\* first asks more than its lesson had when the request arrived; nothing but
\* the request itself touched the lessons since.
FirstItemFails(r) ==
    /\ req[r].pc # "idle"
    /\ req[r].alone
    /\ Len(admin) = 0
    /\ WellFormed(req[r].body)
    /\ Len(req[r].body.lessonIDs) = 2
    /\ \A k \in 1..2 : req[r].body.lessonIDs[k].lessonId \in LessonIds
    /\ req[r].body.lessonIDs[1].lessonId # req[r].body.lessonIDs[2].lessonId
    /\ req[r].body.lessonIDs[1].qty > req[r].snap[req[r].body.lessonIDs[1].lessonId]

\* C15: when a line item fails, the lesson named only by a later item is not
\* changed by the request in any state, the states before its answer included.
C15_NothingAfterFailedItem ==
    \A r \in ReqIds :
        FirstItemFails(r) => applied[r][req[r].body.lessonIDs[2].lessonId] = 0


\* ------------------------------------------------------------ C16

\* The number of updates of request r the store has applied: while the
\* request awaits the i-th one, and when that one was rejected, the i-1
\* before it; otherwise all the i it got to send.
Processed(r) ==
    IF req[r].i = 0 THEN 0
    ELSE IF req[r].pc = "bulk" \/ req[r].fault THEN req[r].i - 1
    ELSE req[r].i

\* C16: in every state the changes a request has made are those of a prefix
\* of its line items as submitted: the update of item i is applied before
\* the update of item i+1.
C16_ItemsInSubmittedOrder ==
    \A r \in ReqIds : \A l \in LessonIds :
        applied[r][l] = 0 - QtyFor(SubSeq(req[r].body.lessonIDs, 1, Processed(r)), l)

\* A request between its two updates: the first item's lesson is decremented,
\* the second item's lesson is not yet.
C16_Witness ==
    \E r \in ReqIds :
        /\ req[r].pc = "bulk"
        /\ req[r].i = 2
        /\ req[r].body.lessonIDs[1].lessonId = "L1"
        /\ req[r].body.lessonIDs[2].lessonId = "L2"
        /\ applied[r]["L1"] = 0 - 3
        /\ applied[r]["L2"] = 0


\* ------------------------------------------------------------ C17

\* The quantity the updates applied so far for the requests rs took of lesson l.
RECURSIVE Decremented(_, _)
Decremented(rs, l) ==
    IF rs = {} THEN 0
    ELSE LET r == CHOOSE x \in rs : TRUE
         IN  QtyFor(SubSeq(req[r].body.lessonIDs, 1, Processed(r)), l)
                 + Decremented(rs \ {r}, l)

\* C17: no update is lost, however the requests interleave: without
\* administrative updates a lesson's spaces is its seeded value minus all the
\* decrements the store applied (the handlers send no compensation), in every
\* state and so after all requests completed.
C17_NoLostUpdate ==
    Len(admin) = 0
        => \A l \in LessonIds : lessons[l].spaces = SeedSpaces - Decremented(ReqIds, l)

\* Two requests that ran concurrently on lesson L1 have both completed, and
\* both decrements are in the lesson's spaces.
C17_Witness ==
    /\ Len(admin) = 0
    /\ \A r \in 1..2 :
        /\ Done(r)
        /\ ~req[r].alone
        /\ req[r].status = 201
        /\ QtyFor(req[r].body.lessonIDs, "L1") = 3
    /\ lessons["L1"].spaces = SeedSpaces - 6


\* ------------------------------------------------------------ C18

\* No POST /orders request is between its arrival and its answer.
Quiescent == \A r \in ReqIds : ~InFlight(r)

\* C18: whenever no request is in flight and no administrative update has
\* occurred, every lesson's spaces is its seeded value minus the quantities of
\* the orders answered with success: a failed order leaves no net change.
C18_QuiescentConsistency ==
    (Quiescent /\ Len(admin) = 0)
        => \A l \in LessonIds : lessons[l].spaces = SeedSpaces - Sold(ReqIds, l)


\* ------------------------------------------------------------ C19

\* The store is marked not ready: the flag of server.js is set, the handle
\* of part_001 is not.
NotReady == IF impl = "server" THEN dbConnectionError ELSE ~db

\* The status of the store-unavailable answer: 503 "Database connection is
\* unavailable." in server.js, 500 "Database not connected yet" in part_001.
StoreUnavailable(code) == code = (IF impl = "server" THEN 503 ELSE 500)

\* C19: in every step taken while the store is marked not ready, no lesson
\* and no order is written, and the booking, administrative or GET request
\* that is received in the step is answered with the store-unavailable error
\* without an operation sent to the store.
C19_NotReadyAnswersUnavailable ==
    [][NotReady
        => /\ lessons' = lessons
           /\ orders' = orders
           /\ \A r \in ReqIds :
                (req[r].pc = "idle" /\ req'[r].pc # "idle")
                => /\ req'[r].pc = "done"
                   /\ req'[r].unavailable
                   /\ StoreUnavailable(req'[r].status)
           /\ Len(admin') > Len(admin)
                => StoreUnavailable(admin'[Len(admin')].status)
           /\ got' # got
                => /\ StoreUnavailable(got'.status)
                   /\ got'.store = "none"]_vars

\* The connection attempt of server.js failed, and a booking, an
\* administrative update and an order listing were each answered 503.
C19_Witness ==
    /\ impl = "server"
    /\ conn = "failed"
    /\ dbConnectionError
    /\ Done(1) /\ req[1].status = 503 /\ req[1].unavailable
    /\ Len(admin) = 1 /\ admin[1].status = 503
    /\ got.route = "orders" /\ got.status = 503 /\ got.store = "none"
    /\ Len(orders) = 0
    /\ \A l \in LessonIds : lessons[l].spaces = SeedSpaces


\* ------------------------------------------------------------ C20

\* Two requests with the same body were both answered 201.
SameOrderTwice(r1, r2) ==
    /\ r1 # r2
    /\ req[r1].body = req[r2].body
    /\ req[r1].status = 201
    /\ req[r2].status = 201

\* C20: two successful requests with identical bodies leave two distinct
\* order records, one of each, and each has decremented every lesson it names
\* by the quantity asked.
C20_NoIdempotency ==
    \A r1, r2 \in ReqIds :
        SameOrderTwice(r1, r2)
        => /\ Cardinality(OrdersOf(r1)) = 1
           /\ Cardinality(OrdersOf(r2)) = 1
           /\ OrdersOf(r1) # OrdersOf(r2)
           /\ \A l \in LessonIds :
                /\ applied[r1][l] = 0 - QtyFor(req[r1].body.lessonIDs, l)
                /\ applied[r2][l] = 0 - QtyFor(req[r2].body.lessonIDs, l)

\* The same order of 3 spaces of L1 was placed twice: two records, and L1
\* decremented twice.
C20_Witness ==
    /\ SameOrderTwice(1, 2)
    /\ Len(orders) = 2
    /\ orders[1].body = orders[2].body
    /\ Len(admin) = 0
    /\ QtyFor(req[1].body.lessonIDs, "L1") = 3
    /\ lessons["L1"].spaces = SeedSpaces - 6


\* ------------------------------------------------------------ C21

\* C21: the order collection is append-only: in every step of any route
\* (booking, administrative update, listing, search) the order records there
\* were are still there, in place and with the content they had.
C21_OrdersAppendOnly ==
    [][/\ Len(orders') >= Len(orders)
       /\ SubSeq(orders', 1, Len(orders)) = orders]_vars

\* Two orders were recorded, and an administrative update and a listing were
\* both served after them; the records are those of the two requests.
C21_Witness ==
    /\ impl = "server"
    /\ Len(orders) = 2
    /\ \A k \in 1..2 : orders[k].req = k /\ orders[k].body = req[k].body
    /\ Len(admin) = 1 /\ admin[1].status = 200
    /\ got.route = "orders" /\ got.status = 200
    /\ \A r \in ReqIds : Done(r)


\* ------------------------------------------------------------ C22

\* The text contains the term as a substring, letters compared in one case.
Contains(text, t) ==
    \E at \in 0..(Len(text) - Len(t)) :
        \A k \in 1..Len(t) : Lower(t[k]) = Lower(text[at + k])

\* C22: a search answered with lessons returns, for an empty or absent term,
\* every lesson (what the listing returns), and for any other term exactly
\* the lessons whose subject or location contains the term as a
\* case-insensitive substring.
C22_SearchBySubstring ==
    (got.route = "search" /\ got.status = 200)
        => got.found =
            IF TermFalsy(got.query) THEN LessonIds
            ELSE {l \in LessonIds :
                    \/ Contains(lessons[l].subject, got.query.text)
                    \/ Contains(lessons[l].location, got.query.text)}


\* ------------------------------------------------------------ C23

\* C23: without administrative updates, no lesson's spaces is ever above
\* its seeded value, whatever quantities the orders carry.
C23_NeverAboveCapacity ==
    Len(admin) = 0 => \A l \in LessonIds : lessons[l].spaces <= SeedSpaces


\* ------------------------------------------------------------ C24

\* Every line item received so far carries a positive quantity.
PositiveQtys ==
    \A r \in ReqIds : \A k \in 1..Len(req[r].body.lessonIDs) :
        req[r].body.lessonIDs[k].qty > 0

\* C24: the order is recorded before any of its decrements: with positive
\* quantities and no administrative update, what was taken off a lesson is at
\* most what the recorded orders ask of it, and a request that has changed a
\* lesson has its order in the collection.
C24_OrderRecordedFirst ==
    (Len(admin) = 0 /\ PositiveQtys)
        => /\ \A l \in LessonIds :
                SeedSpaces - lessons[l].spaces <= Committed(orders, l)
           /\ \A r \in ReqIds :
                (\E l \in LessonIds : applied[r][l] # 0) => OrdersOf(r) # {}

\* A request of part_001 between its two updates: its order is recorded and
\* its first decrement is applied.
C24_Witness ==
    /\ impl = "part_001"
    /\ Len(admin) = 0
    /\ PositiveQtys
    /\ \E r \in ReqIds :
        /\ req[r].pc = "bulk"
        /\ req[r].i = 2
        /\ applied[r]["L1"] = 0 - 3
        /\ OrdersOf(r) # {}
        /\ lessons["L1"].spaces < SeedSpaces


\* ------------------------------------------------------------ C25

\* The administrative updates answered with success that name lesson l.
UpdatesOf(l) == {k \in 1..Len(admin) : admin[k].status = 200 /\ admin[k].id = l}

\* The last of a non-empty set of positions.
Last(ks) == CHOOSE k \in ks : \A j \in ks : j <= k

\* C25: a successful administrative update changes only the spaces of the
\* lesson it names. So every lesson keeps the price, subject and location it
\* was seeded with, and while no order was received there is no order, a
\* lesson that no successful update names has its seeded spaces, and a lesson
\* that one names has the spaces of the last such update.
C25_AdminChangesOnlySpaces ==
    /\ \A l \in LessonIds :
        /\ lessons[l].price = SeedPrice[l]
        /\ lessons[l].subject = SeedSubject[l]
        /\ lessons[l].location = SeedLocation[l]
    /\ (\A r \in ReqIds : req[r].pc = "idle")
        => /\ orders = <<>>
           /\ \A l \in LessonIds :
                lessons[l].spaces =
                    IF UpdatesOf(l) = {} THEN SeedSpaces
                    ELSE admin[Last(UpdatesOf(l))].spaces

====
